---- MODULE Spec2Model ----
(***************************************************************************)
(* Job queue, supervising loop, job runner and usage tracker of the        *)
(* restaurant article auto-publisher web UI (umaten/web_ui.py).            *)
(***************************************************************************)
EXTENDS Integers, Sequences, FiniteSets, TLC

\* ------------------------------------------------------------------ bounds
\* Jobs created during one run of the model.
MaxJobs == 2
\* Milliseconds the clock may advance in the queue specification.
MaxMillis == 1
\* Record calls made in the usage-tracker specification.
MaxRecords == 3
\* How far, in milliseconds, the tracker's clock stops short of or past a
\* window boundary.
Epsilon == 1
\* Request handlers that may run submit_jobs at the same time.
MaxHandlers == 2
\* Settings updates posted during one run of the settings specification.
MaxUpdates == 1

\* ------------------------------------------------------- program constants
MinutePeriod == 60
HourPeriod == 3600
DayPeriod == 86400
MinPhotos == 4
DefaultArticlesPerHour == 10
DefaultConcurrentJobs == 3
InputRate == 3
OutputRate == 15
CharsPerToken == 4
MillisPerSecond == 1000

\* A dict key that is not present (string-valued fields).
Absent == "absent"
\* Python's None, and a value that is present: None is <<>>, x is <<x>>.
None == <<>>
Some(x) == <<x>>

\* ------------------------------------------------------------------ inputs
\* A URL is <<restaurant page, sub page>>; "" is the restaurant's detail page.
RawUrls == {<<n, "">> : n \in 1 .. MaxJobs} \cup {<<1, "dtlrvwlst">>}

\* Values a client may post for the two integer settings; None stands for a
\* value int() rejects.
AphInputs == {Some(1), Some(DefaultArticlesPerHour), None}
CjInputs == {Some(1), Some(DefaultConcurrentJobs), None}

\* What scrape_tabelog may return: nothing, a record without a name, a record
\* with too few photos, a usable record.
GoodRecord ==
    [name |-> "R", address |-> "addr", rating |-> "3.5", category |-> "ramen",
     photo_count |-> MinPhotos]
ScrapeResults ==
    { None,
      Some([GoodRecord EXCEPT !.name = ""]),
      Some([GoodRecord EXCEPT !.photo_count = MinPhotos - 1]),
      Some(GoodRecord) }

\* A text is a sequence of pieces; <<>> is the empty string.
\* str(exception) of a failed generation: may be the empty string.
GenErrors == {<<>>, <<"api_error">>}
\* len(str(restaurant_data)) and len(html_content) of a successful generation.
RecordStrLen == 41
HtmlLen == 9

Post == [id |-> "post", link |-> "post_url"]

\* Category ids as the client posts them: texts, of which "7" and "8" are
\* integers and "x" is not. Per-URL ids may be missing (None) or empty.
\* The bodies a client may post to /api/settings: all values convert, the
\* third does not, the first does not.
SettingsInputs ==
    { [articles_per_hour |-> Some(1), auto_publish |-> TRUE, concurrent_jobs |-> Some(1)],
      [articles_per_hour |-> Some(1), auto_publish |-> TRUE, concurrent_jobs |-> None],
      [articles_per_hour |-> None, auto_publish |-> TRUE, concurrent_jobs |-> Some(1)] }

UrlCategoryInputs == {None, Some(<<>>), Some(<<"x">>), Some(<<"x", "7">>)}
BatchCategoryInputs == {<<>>, <<"8">>}

VARIABLES
    job_queue,      \* web_ui.job_queue: list of jobs, head first
    job_status,     \* web_ui.job_status: job_id -> status record
    token_usage,    \* web_ui.token_usage: the four usage windows
    settings,       \* web_ui.settings
    active_jobs,    \* web_ui.active_jobs
    now,            \* the wall clock, in milliseconds
    loop,           \* process_queue: position and locals of the supervising loop
    runner,         \* process_job: one runner per dispatch, in dispatch order
    submit,         \* submit_jobs: position and locals of each request handler
    enqueued        \* history: every job appended to job_queue, in order

vars == <<job_queue, job_status, token_usage, settings, active_jobs, now,
          loop, runner, submit, enqueued>>

Runners == 1 .. MaxJobs
Handlers == 1 .. MaxHandlers

\* ----------------------------------------------------------- usage tracker
EmptyWindow(ts) == [input |-> 0, output |-> 0, cost |-> 0, count |-> 0, timestamp |-> ts]

\* (now - timestamp).total_seconds() >= period
NeedsResetLate(t, ts, period) == t - ts > period * MillisPerSecond
NeedsReset(t, ts, period) == t - ts >= period * MillisPerSecond

\* reset_token_stats_if_needed
ResetIfNeeded(tu, t) ==
    [tu EXCEPT
        !.minute = IF NeedsReset(t, tu.minute.timestamp, MinutePeriod)
                   THEN EmptyWindow(t) ELSE @,
        !.hour = IF NeedsReset(t, tu.hour.timestamp, HourPeriod)
                 THEN EmptyWindow(t) ELSE @,
        !.day = IF NeedsReset(t, tu.day.timestamp, DayPeriod)
                THEN EmptyWindow(t) ELSE @]

AddTo(w, input_tokens, output_tokens, cost) ==
    [w EXCEPT !.input = @ + input_tokens, !.output = @ + output_tokens,
              !.cost = @ + cost, !.count = @ + 1]

\* record_token_usage
RecordTokenUsage(tu, t, input_tokens, output_tokens, cost) ==
    LET r == ResetIfNeeded(tu, t) IN
    [minute |-> AddTo(r.minute, input_tokens, output_tokens, cost),
     hour |-> AddTo(r.hour, input_tokens, output_tokens, cost),
     day |-> AddTo(r.day, input_tokens, output_tokens, cost),
     total |-> AddTo(r.total, input_tokens, output_tokens, cost)]

\* len(s) // 4
Tokens(len) == len \div CharsPerToken
\* (input / 1_000_000) * 3 + (output / 1_000_000) * 15, in millionths of a dollar
CostOf(input_tokens, output_tokens) == InputRate * input_tokens + OutputRate * output_tokens

InitTokenUsage ==
    [minute |-> EmptyWindow(0), hour |-> EmptyWindow(0), day |-> EmptyWindow(0),
     total |-> [input |-> 0, output |-> 0, cost |-> 0, count |-> 0]]

\* ------------------------------------------------------------------- state
IdleRunner ==
    [pc |-> "idle", job_id |-> None, url |-> None, category_ids |-> None,
     restaurant_data |-> None, article_data |-> None,
     article_generation_failed |-> FALSE, generation_error |-> None,
     post_status |-> Absent, used_categories |-> None, auto_category |-> FALSE,
     post |-> None,
     scrape_calls |-> 0, gen_calls |-> 0, pub_calls |-> 0, record_calls |-> 0,
     escaped |-> FALSE]

\* The loop in time.sleep(0.5); last tells whether the tick before ended in the
\* rate limiter's "continue". The locals are dead between ticks.
LoopAsleep(last) == [pc |-> "sleep", concurrent_limit |-> 0, last |-> last]

\* A request handler outside the loop over the submitted URLs.
IdleHandler == [pc |-> "idle", url |-> None, job |-> None, request |-> None]

\* The settings the module starts with.
DefaultSettings ==
    [articles_per_hour |-> DefaultArticlesPerHour, auto_publish |-> FALSE,
     concurrent_jobs |-> DefaultConcurrentJobs]

Init ==
    /\ job_queue = <<>>
    /\ job_status = [id \in {} |-> None]
    /\ token_usage = InitTokenUsage
    /\ settings = DefaultSettings
    /\ active_jobs = 0
    /\ now = 0
    /\ loop = LoopAsleep("passed")
    /\ runner = [i \in Runners |-> IdleRunner]
    /\ submit = [h \in Handlers |-> IdleHandler]
    /\ enqueued = <<>>

\* ------------------------------------------------------------- submit_jobs
\* RestaurantScraper.normalize_restaurant_url: sub pages are cut off.
Normalize(url) == <<url[1], "">>

\* The duplicate check: some status record already carries this URL.
IsDuplicate(js, url) == \E id \in DOMAIN js : js[id].url = url

\* f"job_{int(time.time() * 1000)}_{len(job_queue)}"
NewJobId(t, q) == <<t, Len(q)>>

\* The category fields of a submit request as they apply to one URL.
Request(url_specific_cats, category_ids, use_auto_category) ==
    [url_specific_cats |-> url_specific_cats, category_ids |-> category_ids,
     use_auto_category |-> use_auto_category]

\* Category ids of a new job: per-URL ids, else the batch ids in manual mode,
\* else None (decide at publish).
JobCategoryIdsBatchFirst(url_specific_cats, category_ids, use_auto_category) ==
    IF ~use_auto_category /\ category_ids # <<>>
    THEN Some(category_ids)
    ELSE IF url_specific_cats # None /\ Len(url_specific_cats[1]) > 0
         THEN url_specific_cats
         ELSE None
JobCategoryIds(url_specific_cats, category_ids, use_auto_category) ==
    IF url_specific_cats # None /\ Len(url_specific_cats[1]) > 0
    THEN url_specific_cats
    ELSE IF ~use_auto_category /\ category_ids # <<>>
         THEN Some(category_ids)
         ELSE None

QueuedStatus(job, t) ==
    [job_id |-> job.job_id, url |-> job.url, status |-> "queued", progress |-> 0,
     current_step |-> "waiting", created_at |-> t,
     warning |-> None, error |-> Absent, result |-> None]

\* job_queue.append(job)
EnqueueOver(q, job) == IF q = <<>> THEN <<job>> ELSE [q EXCEPT ![Len(q)] = job]
Enqueue(q, job) == Append(q, job)

\* One URL of a submit request, up to job_queue.append(job), as handler h
\* runs it.
SubmitUrl(h, raw, url_specific_cats, category_ids, use_auto_category) ==
    /\ submit[h].pc = "idle"
    /\ Len(enqueued) < MaxJobs
    /\ LET url == Normalize(raw)
           job == [job_id |-> NewJobId(now, job_queue), url |-> url,
                   category_ids |-> JobCategoryIds(url_specific_cats, category_ids,
                                                   use_auto_category)]
       IN  /\ ~IsDuplicate(job_status, url)
           /\ job_queue' = Enqueue(job_queue, job)
           /\ enqueued' = Append(enqueued, job)
           /\ submit' = [submit EXCEPT ![h] =
                  [pc |-> "store", url |-> Some(url), job |-> Some(job),
                   request |-> Some(Request(url_specific_cats, category_ids,
                                            use_auto_category))]]
    /\ UNCHANGED <<job_status, token_usage, settings, active_jobs, now, loop, runner>>

\* job_status[job_id] = {...}: the status record is stored after the append.
StoreStatus(h) ==
    /\ submit[h].pc = "store"
    /\ LET job == submit[h].job[1]
       IN  job_status' = (job.job_id :> QueuedStatus(job, now)) @@ job_status
    /\ submit' = [submit EXCEPT ![h] = IdleHandler]
    /\ UNCHANGED <<job_queue, token_usage, settings, active_jobs, now, loop, runner,
                   enqueued>>

\* ---------------------------------------------------------- manage_settings
\* POST /api/settings: three assignments in turn; int() raising ends the
\* handler where it stands.
ManageSettings(aph, ap, cj) ==
    /\ settings' =
         IF aph = None THEN settings
         ELSE IF cj = None
              THEN [settings EXCEPT !.articles_per_hour = aph[1], !.auto_publish = ap]
              ELSE [articles_per_hour |-> aph[1], auto_publish |-> ap,
                    concurrent_jobs |-> cj[1]]
    /\ UNCHANGED <<job_queue, job_status, token_usage, active_jobs, now, loop, runner,
                   submit, enqueued>>

\* ------------------------------------------------------------ process_queue
\* hour_count >= articles_per_hour
RateLimitedStrict(hour_count, articles_per_hour) == hour_count > articles_per_hour
RateLimited(hour_count, articles_per_hour) == hour_count >= articles_per_hour

\* job_queue and active_jobs < concurrent_limit
CanDispatchUpTo(q, active, concurrent_limit) == q # <<>> /\ active <= concurrent_limit
CanDispatch(q, active, concurrent_limit) == q # <<>> /\ active < concurrent_limit

\* job_queue.pop(0)
PopLast(q) == [job |-> q[Len(q)], rest |-> SubSeq(q, 1, Len(q) - 1)]
PopHead(q) == [job |-> Head(q), rest |-> Tail(q)]

Dispatched == {i \in Runners : runner[i].pc # "idle"}
Running == {i \in Runners : runner[i].pc \notin {"idle", "done"}}

\* The sleep, the rate-limit check and "continue".
TickRate ==
    /\ loop.pc = "sleep"
    /\ IF RateLimited(token_usage.hour.count, settings.articles_per_hour)
       THEN loop' = LoopAsleep("skipped")
       ELSE loop' = [loop EXCEPT !.pc = "limit"]
    /\ UNCHANGED <<job_queue, job_status, token_usage, settings, active_jobs, now,
                   runner, submit, enqueued>>

\* concurrent_limit = settings.get('concurrent_jobs', 3)
TickLimitDefault ==
    /\ loop.pc = "limit"
    /\ loop' = [loop EXCEPT !.pc = "lock", !.concurrent_limit = DefaultConcurrentJobs]
    /\ UNCHANGED <<job_queue, job_status, token_usage, settings, active_jobs, now,
                   runner, submit, enqueued>>
TickLimit ==
    /\ loop.pc = "limit"
    /\ loop' = [loop EXCEPT !.pc = "lock", !.concurrent_limit = settings.concurrent_jobs]
    /\ UNCHANGED <<job_queue, job_status, token_usage, settings, active_jobs, now,
                   runner, submit, enqueued>>

\* with processing_lock: pop the head, count it, hand it to the pool.
TickDispatch ==
    /\ loop.pc = "lock"
    /\ IF CanDispatch(job_queue, active_jobs, loop.concurrent_limit)
       THEN LET p == PopHead(job_queue)
                i == Cardinality(Dispatched) + 1
            IN  /\ job_queue' = p.rest
                /\ active_jobs' = active_jobs + 1
                /\ runner' = [runner EXCEPT ![i] =
                       [IdleRunner EXCEPT !.pc = "start", !.job_id = p.job.job_id,
                                          !.url = p.job.url,
                                          !.category_ids = p.job.category_ids]]
                /\ loop' = LoopAsleep("passed")
       ELSE /\ loop' = LoopAsleep("passed")
            /\ UNCHANGED <<job_queue, active_jobs, runner>>
    /\ UNCHANGED <<job_status, token_usage, settings, now, submit, enqueued>>

\* -------------------------------------------------------------- process_job
\* job_status[job_id][k] = v for every field k of fields
Upd(js, id, fields) == [js EXCEPT ![id] = fields @@ @]

\* except Exception as e: status = 'error', error = str(e)
ExceptAll(js, id, msg) ==
    [k \in DOMAIN js |-> [status |-> "error", error |-> msg] @@ js[k]]
Except(js, id, msg) == Upd(js, id, [status |-> "error", error |-> msg])

\* What socketio.emit does at the one or two call sites of a stage: all return,
\* or the first or the second raises. The stages take the outcomes to explore
\* as their parameter emits.
EmitOutcomes == {"ok", "first", "second"}
NoEmitFailure == {"ok"}

\* An exception raised in the try block: the handler sets the error state and
\* emits; when that emit raises too the exception leaves the runner.
Raise(i, r, js, msg, emits) ==
    \E handler_emit_ok \in {e = "ok" : e \in emits} :
        /\ job_status' = Except(js, r.job_id, msg)
        /\ runner' = [runner EXCEPT ![i] =
               [r EXCEPT !.pc = "finally", !.escaped = ~handler_emit_ok]]

\* Two status updates with an emit after each, then the next stage.
TwoUpdates(i, r, js, fields1, fields2, next, emits) ==
    \E e \in emits :
        LET s1 == Upd(js, r.job_id, fields1)
            s2 == Upd(s1, r.job_id, fields2)
        IN  CASE e = "first" -> Raise(i, r, s1, "emit", emits)
              [] e = "second" -> Raise(i, r, s2, "emit", emits)
              [] OTHER -> /\ job_status' = s2
                          /\ runner' = [runner EXCEPT ![i] = [r EXCEPT !.pc = next]]

\* status = 'processing' ... 'スクレイピング中...'
Start(i, emits) ==
    /\ runner[i].pc = "start"
    /\ IF runner[i].job_id \notin DOMAIN job_status
       THEN \* KeyError in the try block and again in the handler
            /\ runner' = [runner EXCEPT ![i].pc = "finally", ![i].escaped = TRUE]
            /\ UNCHANGED job_status
       ELSE TwoUpdates(i, runner[i], job_status,
                       [status |-> "processing", progress |-> 10],
                       [current_step |-> "scraping", progress |-> 20], "fetch", emits)
    /\ UNCHANGED <<job_queue, token_usage, settings, active_jobs, now, loop, submit,
                   enqueued>>

\* not restaurant_data or not restaurant_data.get('name')
NoRecord(rd) == rd = None \/ rd[1].name = ""
\* photo_count < 4
TooFewPhotosLax(rd) == rd[1].photo_count < MinPhotos - 1
TooFewPhotos(rd) == rd[1].photo_count < MinPhotos

\* Step 1: scrape, the two precondition checks. A record that fails a check
\* is not read again, so the runner keeps only one that passes.
Fetch(i, emits) ==
    /\ runner[i].pc = "fetch"
    /\ \E rd \in ScrapeResults :
         LET r == [runner[i] EXCEPT !.scrape_calls = @ + 1]
         IN  IF NoRecord(rd)
             THEN Raise(i, r, job_status, "fetch_failed", emits)
             ELSE IF TooFewPhotos(rd)
             THEN Raise(i, r, job_status, "too_few_photos", emits)
             ELSE TwoUpdates(i, [r EXCEPT !.restaurant_data = rd], job_status,
                             [progress |-> 40],
                             [current_step |-> "generating", progress |-> 50],
                             "generate", emits)
    /\ UNCHANGED <<job_queue, token_usage, settings, active_jobs, now, loop, submit,
                   enqueued>>

GeneratedArticle(rd) ==
    [seo_title |-> rd.name, html_content |-> <<"generated", rd.name>>,
     slug |-> "slug", tags |-> <<"tag">>, meta_description |-> <<"meta">>]

\* The article built from the record's plain fields when generation fails.
FallbackArticle(rd) ==
    [seo_title |-> rd.name,
     html_content |-> <<"fallback", rd.name, rd.address, rd.rating, rd.category>>,
     slug |-> "", tags |-> <<>>, meta_description |-> <<rd.name, rd.address>>]

\* Step 2: generate and record the usage, or fall back.
Generate(i, emits) ==
    /\ runner[i].pc = "generate"
    /\ \E gen_error \in {None} \cup {Some(e) : e \in GenErrors} :
         LET r0 == runner[i]
             rd == r0.restaurant_data[1]
             input_tokens == Tokens(RecordStrLen)
             output_tokens == Tokens(HtmlLen)
             r == IF gen_error = None
                  THEN [r0 EXCEPT !.article_data = Some(GeneratedArticle(rd)),
                                  !.gen_calls = @ + 1, !.record_calls = @ + 1]
                  ELSE [r0 EXCEPT !.article_data = Some(FallbackArticle(rd)),
                                  !.article_generation_failed = TRUE,
                                  !.generation_error = gen_error,
                                  !.gen_calls = @ + 1]
         IN  /\ token_usage' =
                   IF gen_error = None
                   THEN RecordTokenUsage(token_usage, now, input_tokens, output_tokens,
                                         CostOf(input_tokens, output_tokens))
                   ELSE token_usage
             /\ TwoUpdates(i, r, job_status,
                           [progress |-> 70],
                           [current_step |-> "publishing", progress |-> 80], "publish",
                           emits)
    /\ UNCHANGED <<job_queue, settings, active_jobs, now, loop, submit, enqueued>>

\* f"記事生成に失敗しました: {generation_error}"
WarningBare(generation_error) == generation_error
Warning(generation_error) == <<"generation_failed:">> \o generation_error

\* The status fields written at completion.
Completed(r, post) ==
    [status |-> "completed", progress |-> 100,
     current_step |-> IF r.article_generation_failed THEN "done_fallback" ELSE "done",
     result |-> Some([post_id |-> post.id, post_url |-> post.link,
                      restaurant_name |-> r.restaurant_data[1].name,
                      article_generation_failed |-> r.article_generation_failed])]
    @@ (IF r.article_generation_failed
        THEN [warning |-> Some(Warning(r.generation_error[1]))]
        ELSE [x \in {} |-> None])

\* int(cat_id): None when it raises ValueError or TypeError.
CategoryIdInt(cat_id) ==
    CASE cat_id = "7" -> Some(7)
      [] cat_id = "8" -> Some(8)
      [] OTHER -> None

\* category_ids_int: the ids that convert, in order; the others are dropped.
RECURSIVE CategoryIdsInt(_)
CategoryIdsInt(category_ids) ==
    IF category_ids = <<>> THEN <<>>
    ELSE CategoryIdInt(Head(category_ids)) \o CategoryIdsInt(Tail(category_ids))

\* if category_ids and len(category_ids) > 0
HasCategoryIds(category_ids) == category_ids # None /\ Len(category_ids[1]) > 0

\* status = 'publish' if settings['auto_publish'] else 'draft'
PostStatusDraft(auto_publish) == "draft"
PostStatus(auto_publish) == IF auto_publish THEN "publish" ELSE "draft"

\* The runner after its call of the publisher: create_post with the job's
\* converted category ids, or publish_article with auto-classification.
CallPublisher(r, auto_publish, post) ==
    [r EXCEPT
       !.post_status = PostStatus(auto_publish),
       !.used_categories =
           IF HasCategoryIds(r.category_ids)
           THEN Some(CategoryIdsInt(r.category_ids[1]))
           ELSE None,
       !.auto_category = ~HasCategoryIds(r.category_ids),
       !.post = post,
       !.pub_calls = @ + 1]

\* Step 3: publish, then the completion record.
Publish(i, emits) ==
    /\ runner[i].pc = "publish"
    /\ \E post \in {None, Some(Post)}, emit_ok \in {e = "ok" : e \in emits} :
         LET r == CallPublisher(runner[i], settings.auto_publish, post)
             done == Upd(job_status, r.job_id, Completed(r, post[1]))
         IN  IF post = None
             THEN emit_ok /\ Raise(i, r, job_status, "publish_failed", emits)
             ELSE IF emit_ok
                  THEN /\ job_status' = done
                       /\ runner' = [runner EXCEPT ![i] = [r EXCEPT !.pc = "finally"]]
                  ELSE Raise(i, r, done, "emit", emits)
    /\ UNCHANGED <<job_queue, token_usage, settings, active_jobs, now, loop, submit,
                   enqueued>>

\* finally: with processing_lock: active_jobs -= 1
DecrementUnlessRaised(active, escaped) == IF escaped THEN active ELSE active - 1
DecrementOnExit(active, escaped) == active - 1

Finally(i) ==
    /\ runner[i].pc = "finally"
    /\ active_jobs' = DecrementOnExit(active_jobs, runner[i].escaped)
    /\ runner' = [runner EXCEPT ![i].pc = "done"]
    /\ UNCHANGED <<job_queue, job_status, token_usage, settings, now, loop, submit,
                   enqueued>>

\* -------------------------------------------------- handle_stats_request, time
\* A stats request resets the expired windows before it reads them.
StatsRequest ==
    /\ token_usage' = ResetIfNeeded(token_usage, now)
    /\ UNCHANGED <<job_queue, job_status, settings, active_jobs, now, loop, runner,
                   submit, enqueued>>

\* The clock moves on by d milliseconds, up to the time limit.
Advance(d, limit) ==
    /\ now + d <= limit
    /\ now' = now + d
    /\ UNCHANGED <<job_queue, job_status, token_usage, settings, active_jobs, loop,
                   runner, submit, enqueued>>

\* The clock is read by submissions only: it moves between requests, while one
\* is still to come.
ClockStillRead == Len(enqueued) < MaxJobs /\ \A h \in Handlers : submit[h].pc = "idle"

\* ------------------------------------------------------------ specification
\* The queue specification: submissions without category ids, settings updates
\* of the two caps, every emit returning.
Next ==
    \/ \E raw \in RawUrls : SubmitUrl(1, raw, None, <<>>, TRUE)
    \/ StoreStatus(1)
    \/ \E aph \in AphInputs, cj \in CjInputs : ManageSettings(aph, FALSE, cj)
    \/ TickRate
    \/ TickLimit
    \/ TickDispatch
    \/ \E i \in Runners : Start(i, NoEmitFailure)
    \/ \E i \in Runners : Fetch(i, NoEmitFailure)
    \/ \E i \in Runners : Generate(i, NoEmitFailure)
    \/ \E i \in Runners : Publish(i, NoEmitFailure)
    \/ \E i \in Runners : Finally(i)
    \/ (ClockStillRead /\ Advance(1, MaxMillis))

Spec == Init /\ [][Next]_vars

\* The fault specification: every job_update emit may raise; the settings stay
\* as they start.
NextFaults ==
    \/ \E raw \in RawUrls : SubmitUrl(1, raw, None, <<>>, TRUE)
    \/ StoreStatus(1)
    \/ TickRate
    \/ TickLimit
    \/ TickDispatch
    \/ \E i \in Runners : Start(i, EmitOutcomes)
    \/ \E i \in Runners : Fetch(i, EmitOutcomes)
    \/ \E i \in Runners : Generate(i, EmitOutcomes)
    \/ \E i \in Runners : Publish(i, EmitOutcomes)
    \/ \E i \in Runners : Finally(i)

SpecFaults == Init /\ [][NextFaults]_vars

\* The usage-tracker specification: record calls and stats requests at clock
\* readings on, just before and just after the window periods.
ClockPoints ==
    {t \in {(a * MinutePeriod + b * HourPeriod + c * DayPeriod) * MillisPerSecond + e :
                a \in 0 .. 1, b \in 0 .. 1, c \in 0 .. 1, e \in {0 - Epsilon, 0, Epsilon}} :
        t >= 0}

\* Token counts of one record call: <<input, output>>.
UsageInputs == {<<1, 0>>, <<2, 3>>}

\* One call record_token_usage(input_tokens, output_tokens, cost).
RecordCall(input_tokens, output_tokens) ==
    /\ token_usage.total.count < MaxRecords
    /\ token_usage' = RecordTokenUsage(token_usage, now, input_tokens, output_tokens,
                                       CostOf(input_tokens, output_tokens))
    /\ UNCHANGED <<job_queue, job_status, settings, active_jobs, now, loop, runner,
                   submit, enqueued>>

NextUsage ==
    \/ \E u \in UsageInputs : RecordCall(u[1], u[2])
    \/ StatsRequest
    \/ \E t \in ClockPoints : t > now /\ Advance(t - now, t)

SpecUsage == Init /\ [][NextUsage]_vars

\* The tick specification: the supervising loop ticking over an empty queue
\* while the tracker records, stats are requested, the hourly cap is updated
\* and the clock passes the window periods.
NextTicks ==
    \/ \E u \in UsageInputs : RecordCall(u[1], u[2])
    \/ StatsRequest
    \/ \E t \in ClockPoints : t > now /\ Advance(t - now, t)
    \/ \E aph \in AphInputs : ManageSettings(aph, FALSE, Some(DefaultConcurrentJobs))
    \/ TickRate
    \/ TickLimit
    \/ TickDispatch

SpecTicks == Init /\ [][NextTicks]_vars

\* The record specification: record_token_usage as the threads of the pool
\* run it, one load and one store per "+=" statement, with no lock around
\* them. A runner enters at the call in process_job and the clock stands still.
Periods == <<"minute", "hour", "day", "total">>
UsageFields == <<"input", "output", "cost", "count">>

\* The increment a record call of one successful generation adds to a field.
Increment(field) ==
    CASE field = "input" -> Tokens(RecordStrLen)
      [] field = "output" -> Tokens(HtmlLen)
      [] field = "cost" -> CostOf(Tokens(RecordStrLen), Tokens(HtmlLen))
      [] OTHER -> 1

\* A pool thread inside record_token_usage: the window and field of the
\* statement it stands at and the value it has loaded.
Recorder(pc, period, field, loaded) ==
    [period |-> period, field |-> field, loaded |-> loaded]
        @@ [IdleRunner EXCEPT !.pc = pc]

\* The call: reset_token_stats_if_needed(), then the loop over the periods.
RecordEnter(i) ==
    /\ runner[i].pc = "idle"
    /\ \A j \in Runners : j < i => runner[j].pc # "idle"
    /\ token_usage' = ResetIfNeeded(token_usage, now)
    /\ runner' = [runner EXCEPT ![i] = Recorder("record_load", 1, 1, 0)]
    /\ UNCHANGED <<job_queue, job_status, settings, active_jobs, now, loop, submit,
                   enqueued>>

\* token_usage[period][field] += x, first half: load the current value.
RecordLoad(i) ==
    /\ runner[i].pc = "record_load"
    /\ runner' = [runner EXCEPT ![i] =
           Recorder("record_store", runner[i].period, runner[i].field,
                    token_usage[Periods[runner[i].period]][UsageFields[runner[i].field]])]
    /\ UNCHANGED <<job_queue, job_status, token_usage, settings, active_jobs, now,
                   loop, submit, enqueued>>

\* token_usage[period][field] += x, second half: store the sum; then the next
\* statement, the next period, or the return.
RecordStore(i) ==
    /\ runner[i].pc = "record_store"
    /\ LET r == runner[i]
           period == Periods[r.period]
           field == UsageFields[r.field]
       IN  /\ token_usage' =
                 [token_usage EXCEPT ![period][field] = r.loaded + Increment(field)]
           /\ runner' = [runner EXCEPT ![i] =
                  IF r.field < Len(UsageFields)
                  THEN Recorder("record_load", r.period, r.field + 1, 0)
                  ELSE IF r.period < Len(Periods)
                  THEN Recorder("record_load", r.period + 1, 1, 0)
                  ELSE Recorder("recorded", r.period, r.field, 0)]
    /\ UNCHANGED <<job_queue, job_status, settings, active_jobs, now, loop, submit,
                   enqueued>>

NextRecord ==
    \/ \E i \in Runners : RecordEnter(i)
    \/ \E i \in Runners : RecordLoad(i)
    \/ \E i \in Runners : RecordStore(i)

SpecRecord == Init /\ [][NextRecord]_vars

\* The submit specification: request handlers running submit_jobs at the same
\* time, statement by statement: the duplicate check, the append, the status
\* store; the supervising loop pops what they append.
\* The duplicate check of one URL; a duplicate is skipped.
SubmitCheck(h, raw) ==
    /\ submit[h].pc = "idle"
    /\ Len(enqueued) + Cardinality({g \in Handlers : submit[g].pc = "append"}) < MaxJobs
    /\ ~IsDuplicate(job_status, Normalize(raw))
    /\ submit' = [submit EXCEPT ![h] =
           [pc |-> "append", url |-> Some(Normalize(raw)), job |-> None,
            request |-> None]]
    /\ UNCHANGED <<job_queue, job_status, token_usage, settings, active_jobs, now,
                   loop, runner, enqueued>>

\* The job id, the category ids, job_queue.append(job).
SubmitAppend(h, url_specific_cats, category_ids, use_auto_category) ==
    /\ submit[h].pc = "append"
    /\ LET job == [job_id |-> NewJobId(now, job_queue), url |-> submit[h].url[1],
                   category_ids |-> JobCategoryIds(url_specific_cats, category_ids,
                                                   use_auto_category)]
       IN  /\ job_queue' = Enqueue(job_queue, job)
           /\ enqueued' = Append(enqueued, job)
           /\ submit' = [submit EXCEPT ![h] =
                  [pc |-> "store", url |-> submit[h].url, job |-> Some(job),
                   request |-> Some(Request(url_specific_cats, category_ids,
                                            use_auto_category))]]
    /\ UNCHANGED <<job_status, token_usage, settings, active_jobs, now, loop, runner>>

NextSubmit ==
    \/ \E h \in Handlers, raw \in RawUrls : SubmitCheck(h, raw)
    \/ \E h \in Handlers : SubmitAppend(h, None, <<>>, TRUE)
    \/ \E h \in Handlers : StoreStatus(h)
    \/ TickRate
    \/ TickLimit
    \/ TickDispatch
    \/ (ClockStillRead /\ Advance(1, MaxMillis))

SpecSubmit == Init /\ [][NextSubmit]_vars

\* The category specification: submissions with per-URL and batch-wide
\* category ids in automatic and manual mode, through to publish.
NextCategories ==
    \/ \E raw \in RawUrls, url_specific_cats \in UrlCategoryInputs,
          category_ids \in BatchCategoryInputs, use_auto_category \in BOOLEAN :
          SubmitUrl(1, raw, url_specific_cats, category_ids, use_auto_category)
    \/ StoreStatus(1)
    \/ TickRate
    \/ TickLimit
    \/ TickDispatch
    \/ \E i \in Runners : Start(i, NoEmitFailure)
    \/ \E i \in Runners : Fetch(i, NoEmitFailure)
    \/ \E i \in Runners : Generate(i, NoEmitFailure)
    \/ \E i \in Runners : Publish(i, NoEmitFailure)
    \/ \E i \in Runners : Finally(i)

SpecCategories == Init /\ [][NextCategories]_vars

\* The status specification: the runner's writes to its status record after
\* the publisher's call, one assignment at a time, and the emit that follows
\* them, as a reader of the status store running beside it finds them.
\* The fields f holds among keys.
Pick(f, keys) == [k \in keys \cap DOMAIN f |-> f[k]]

\* The publisher's call; without a post the exception is on its way to the
\* handler.
PublishCall(i) ==
    /\ runner[i].pc = "publish"
    /\ \E post \in {None, Some(Post)} :
         runner' = [runner EXCEPT ![i] =
             [CallPublisher(runner[i], settings.auto_publish, post) EXCEPT
                !.pc = IF post = None THEN "except_status" ELSE "set_status"]]
    /\ UNCHANGED <<job_queue, job_status, token_usage, settings, active_jobs, now,
                   loop, submit, enqueued>>

\* One assignment of the completion: the fields keys of the completion
\* record, then the statement next.
CompleteFields(i, pc, keys, next) ==
    /\ runner[i].pc = pc
    /\ job_status' = Upd(job_status, runner[i].job_id,
                         Pick(Completed(runner[i], runner[i].post[1]), keys))
    /\ runner' = [runner EXCEPT ![i].pc = next]
    /\ UNCHANGED <<job_queue, token_usage, settings, active_jobs, now, loop, submit,
                   enqueued>>

\* job_status[job_id]['status'] = 'completed'
CompleteStatus(i) == CompleteFields(i, "set_status", {"status"}, "set_progress")
\* job_status[job_id]['progress'] = 100
CompleteProgress(i) == CompleteFields(i, "set_progress", {"progress"}, "set_step")
\* current_step, and the warning after a failed generation
CompleteStep(i) == CompleteFields(i, "set_step", {"current_step", "warning"}, "set_result")
\* job_status[job_id]['result'] = {...}
CompleteResult(i) == CompleteFields(i, "set_result", {"result"}, "emit_completed")

\* except: job_status[job_id]['status'] = 'error'
ExceptStatus(i) ==
    /\ runner[i].pc = "except_status"
    /\ job_status' = Upd(job_status, runner[i].job_id, [status |-> "error"])
    /\ runner' = [runner EXCEPT ![i].pc = "except_error"]
    /\ UNCHANGED <<job_queue, token_usage, settings, active_jobs, now, loop, submit,
                   enqueued>>

\* except: job_status[job_id]['error'] = str(e)
ExceptError(i) ==
    /\ runner[i].pc = "except_error"
    /\ job_status' = Upd(job_status, runner[i].job_id, [error |-> "publish_failed"])
    /\ runner' = [runner EXCEPT ![i].pc = "emit_error"]
    /\ UNCHANGED <<job_queue, token_usage, settings, active_jobs, now, loop, submit,
                   enqueued>>

\* socketio.emit('job_update', job_status[job_id]): the event carries the
\* record the store holds under the job's id at this moment; the runner keeps
\* it as the event it emitted last.
EmitUpdate(i, pc) ==
    /\ runner[i].pc = pc
    /\ runner' = [runner EXCEPT ![i] =
           [emitted |-> job_status[runner[i].job_id]]
               @@ [runner[i] EXCEPT !.pc = "finally"]]
    /\ UNCHANGED <<job_queue, job_status, token_usage, settings, active_jobs, now,
                   loop, submit, enqueued>>

\* The emit after the completion and the one in the except clause.
EmitCompleted(i) == EmitUpdate(i, "emit_completed")
EmitError(i) == EmitUpdate(i, "emit_error")

NextStatus ==
    \/ \E raw \in RawUrls : SubmitUrl(1, raw, None, <<>>, TRUE)
    \/ StoreStatus(1)
    \/ TickRate
    \/ TickLimit
    \/ TickDispatch
    \/ \E i \in Runners : Start(i, NoEmitFailure)
    \/ \E i \in Runners : Fetch(i, NoEmitFailure)
    \/ \E i \in Runners : Generate(i, NoEmitFailure)
    \/ \E i \in Runners : PublishCall(i)
    \/ \E i \in Runners : CompleteStatus(i)
    \/ \E i \in Runners : CompleteProgress(i)
    \/ \E i \in Runners : CompleteStep(i)
    \/ \E i \in Runners : CompleteResult(i)
    \/ \E i \in Runners : ExceptStatus(i)
    \/ \E i \in Runners : ExceptError(i)
    \/ \E i \in Runners : EmitCompleted(i)
    \/ \E i \in Runners : EmitError(i)
    \/ \E i \in Runners : Finally(i)

SpecStatus == Init /\ [][NextStatus]_vars

\* The dispatch specification: the loop's critical section one statement at a
\* time, the runners' decrement waiting for the lock, and a stats request
\* reading the queue length and the counter without it.
\* The loop inside "with processing_lock", holding the job it popped.
LoopLocked(pc, job) == [job |-> job] @@ [loop EXCEPT !.pc = pc]

\* processing_lock is held by the loop.
LoopHoldsLock == loop.pc \in {"count", "pool"}

\* with processing_lock: if job_queue and active_jobs < concurrent_limit:
\* job = job_queue.pop(0)
TickPop ==
    /\ loop.pc = "lock"
    /\ IF CanDispatch(job_queue, active_jobs, loop.concurrent_limit)
       THEN /\ job_queue' = PopHead(job_queue).rest
            /\ loop' = LoopLocked("count", PopHead(job_queue).job)
       ELSE /\ loop' = LoopAsleep("passed")
            /\ UNCHANGED job_queue
    /\ UNCHANGED <<job_status, token_usage, settings, active_jobs, now, runner, submit,
                   enqueued>>

\* active_jobs += 1
TickCount ==
    /\ loop.pc = "count"
    /\ active_jobs' = active_jobs + 1
    /\ loop' = [loop EXCEPT !.pc = "pool"]
    /\ UNCHANGED <<job_queue, job_status, token_usage, settings, now, runner, submit,
                   enqueued>>

\* executor.submit(process_job, ...), and the lock is released.
TickPool ==
    /\ loop.pc = "pool"
    /\ LET i == Cardinality(Dispatched) + 1
       IN  runner' = [runner EXCEPT ![i] =
               [IdleRunner EXCEPT !.pc = "start", !.job_id = loop.job.job_id,
                                  !.url = loop.job.url,
                                  !.category_ids = loop.job.category_ids]]
    /\ loop' = LoopAsleep("passed")
    /\ UNCHANGED <<job_queue, job_status, token_usage, settings, active_jobs, now,
                   submit, enqueued>>

\* finally: with processing_lock: the runner waits while the loop holds it.
FinallyLocked(i) == ~LoopHoldsLock /\ Finally(i)

\* handle_stats_request: queue_length and active_jobs as the handler reads
\* them, kept as the stats it emitted last.
StatsSnapshot(h) ==
    /\ submit[h].pc = "idle"
    /\ submit' = [submit EXCEPT ![h] =
           [stats |-> [queue_length |-> Len(job_queue), active_jobs |-> active_jobs,
                       processing |-> active_jobs > 0]] @@ IdleHandler]
    /\ UNCHANGED <<job_queue, job_status, token_usage, settings, active_jobs, now,
                   loop, runner, enqueued>>

NextDispatch ==
    \/ \E raw \in RawUrls : SubmitUrl(1, raw, None, <<>>, TRUE)
    \/ StoreStatus(1)
    \/ StatsSnapshot(MaxHandlers)
    \/ TickRate
    \/ TickLimit
    \/ TickPop
    \/ TickCount
    \/ TickPool
    \/ \E i \in Runners : Start(i, NoEmitFailure)
    \/ \E i \in Runners : Fetch(i, NoEmitFailure)
    \/ \E i \in Runners : Generate(i, NoEmitFailure)
    \/ \E i \in Runners : Publish(i, NoEmitFailure)
    \/ \E i \in Runners : FinallyLocked(i)

SpecDispatch == Init /\ [][NextDispatch]_vars

\* The throttle specification: the hourly cap set to one, jobs run to their
\* end and the clock passes the hour; nobody requests stats. The loop never
\* stops ticking, every runner goes on to its end and time passes.
NextThrottle ==
    \/ \E raw \in RawUrls : SubmitUrl(1, raw, None, <<>>, TRUE)
    \/ StoreStatus(1)
    \/ ManageSettings(Some(1), FALSE, Some(DefaultConcurrentJobs))
    \/ TickRate
    \/ TickLimit
    \/ TickDispatch
    \/ \E i \in Runners : Start(i, NoEmitFailure)
    \/ \E i \in Runners : Fetch(i, NoEmitFailure)
    \/ \E i \in Runners : Generate(i, NoEmitFailure)
    \/ \E i \in Runners : Publish(i, NoEmitFailure)
    \/ \E i \in Runners : Finally(i)
    \/ Advance(HourPeriod * MillisPerSecond, HourPeriod * MillisPerSecond)

SpecThrottle ==
    /\ Init
    /\ [][NextThrottle]_vars
    /\ WF_vars(TickRate)
    /\ WF_vars(TickLimit)
    /\ WF_vars(TickDispatch)
    /\ \A i \in Runners :
         WF_vars(Start(i, NoEmitFailure) \/ Fetch(i, NoEmitFailure)
                    \/ Generate(i, NoEmitFailure) \/ Publish(i, NoEmitFailure)
                    \/ Finally(i))
    /\ WF_vars(Advance(HourPeriod * MillisPerSecond, HourPeriod * MillisPerSecond))

\* The settings specification: manage_settings statement by statement in a
\* request handler's thread, next to a submission, the supervising loop and
\* the runners.
\* The settings requests a handler has served or begun.
UpdatesBegun(h) == IF "updates" \in DOMAIN submit[h] THEN submit[h].updates ELSE 0

\* A handler inside manage_settings: the posted body, and for the record the
\* settings as they were when the request came in.
SettingsHandler(pc, data, old, updates) ==
    [pc |-> pc, url |-> None, job |-> None, request |-> Some(data), old |-> old,
     updates |-> updates]

\* data = request.json
SettingsBegin(h, data) ==
    /\ submit[h].pc \in {"idle", "succeeded", "failed"}
    /\ UpdatesBegun(h) < MaxUpdates
    /\ submit' = [submit EXCEPT ![h] =
           SettingsHandler("set_articles_per_hour", data, settings, UpdatesBegun(h) + 1)]
    /\ UNCHANGED <<job_queue, job_status, token_usage, settings, active_jobs, now,
                   loop, runner, enqueued>>

\* settings['articles_per_hour'] = int(...); int() raising ends in the
\* handler's except clause.
SettingsArticlesPerHour(h) ==
    /\ submit[h].pc = "set_articles_per_hour"
    /\ LET data == submit[h].request[1]
       IN  IF data.articles_per_hour = None
           THEN /\ submit' = [submit EXCEPT ![h].pc = "failed"]
                /\ UNCHANGED settings
           ELSE /\ settings' = [settings EXCEPT
                                   !.articles_per_hour = data.articles_per_hour[1]]
                /\ submit' = [submit EXCEPT ![h].pc = "set_auto_publish"]
    /\ UNCHANGED <<job_queue, job_status, token_usage, active_jobs, now, loop, runner,
                   enqueued>>

\* settings['auto_publish'] = bool(...)
SettingsAutoPublish(h) ==
    /\ submit[h].pc = "set_auto_publish"
    /\ settings' = [settings EXCEPT !.auto_publish = submit[h].request[1].auto_publish]
    /\ submit' = [submit EXCEPT ![h].pc = "set_concurrent_jobs"]
    /\ UNCHANGED <<job_queue, job_status, token_usage, active_jobs, now, loop, runner,
                   enqueued>>

\* settings['concurrent_jobs'] = int(...), then the response.
SettingsConcurrentJobs(h) ==
    /\ submit[h].pc = "set_concurrent_jobs"
    /\ LET data == submit[h].request[1]
       IN  IF data.concurrent_jobs = None
           THEN /\ submit' = [submit EXCEPT ![h].pc = "failed"]
                /\ UNCHANGED settings
           ELSE /\ settings' = [settings EXCEPT
                                   !.concurrent_jobs = data.concurrent_jobs[1]]
                /\ submit' = [submit EXCEPT ![h].pc = "succeeded"]
    /\ UNCHANGED <<job_queue, job_status, token_usage, active_jobs, now, loop, runner,
                   enqueued>>

\* The sleep and the rate-limit check, with the loop's local articles_per_hour
\* kept to the end of the tick.
TickRateLocal ==
    /\ loop.pc = "sleep"
    /\ IF RateLimited(token_usage.hour.count, settings.articles_per_hour)
       THEN loop' = LoopAsleep("skipped")
       ELSE loop' = [articles_per_hour |-> settings.articles_per_hour]
                        @@ [LoopAsleep(loop.last) EXCEPT !.pc = "limit"]
    /\ UNCHANGED <<job_queue, job_status, token_usage, settings, active_jobs, now,
                   runner, submit, enqueued>>

NextSettings ==
    \/ \E raw \in RawUrls : SubmitUrl(1, raw, None, <<>>, TRUE)
    \/ StoreStatus(1)
    \/ \E data \in SettingsInputs : SettingsBegin(MaxHandlers, data)
    \/ SettingsArticlesPerHour(MaxHandlers)
    \/ SettingsAutoPublish(MaxHandlers)
    \/ SettingsConcurrentJobs(MaxHandlers)
    \/ TickRateLocal
    \/ TickLimit
    \/ TickDispatch
    \/ \E i \in Runners : Start(i, NoEmitFailure)
    \/ \E i \in Runners : Fetch(i, NoEmitFailure)
    \/ \E i \in Runners : Generate(i, NoEmitFailure)
    \/ \E i \in Runners : Publish(i, NoEmitFailure)
    \/ \E i \in Runners : Finally(i)

SpecSettings == Init /\ [][NextSettings]_vars

\* ================================================================== claims
\* A step of the loop that hands a job to the pool.
DispatchStep == Cardinality(Dispatched') > Cardinality(Dispatched)

\* The jobs handed to the pool so far, in dispatch order.
DispatchedJobs ==
    [i \in 1 .. Cardinality(Dispatched) |->
        [job_id |-> runner[i].job_id, url |-> runner[i].url,
         category_ids |-> runner[i].category_ids]]

CompletedJobs == {id \in DOMAIN job_status : job_status[id].status = "completed"}

\* C1 (as claimed): the in-flight counter never exceeds the concurrency cap
\* currently held in the settings.
C1_NeverAboveCurrentCap == active_jobs <= settings.concurrent_jobs

\* C1 (amended): the in-flight counter grows only by a dispatch, and right
\* after a dispatch it is at most the concurrency cap the loop read from the
\* settings on that tick.
C1_DispatchWithinCapRead ==
    [][active_jobs' > active_jobs
         => /\ DispatchStep
            /\ active_jobs' = active_jobs + 1
            /\ active_jobs' <= loop.concurrent_limit]_vars

\* The cap binds: as many jobs run as the cap allows while another one waits.
C1_CapReachedWithJobWaiting ==
    /\ active_jobs = settings.concurrent_jobs
    /\ active_jobs > 0
    /\ job_queue # <<>>
    /\ loop.pc = "sleep"

\* C2: jobs are dispatched in the order they were appended: the jobs
\* dispatched so far followed by the queue are the jobs appended so far.
C2_FifoDispatch == enqueued = DispatchedJobs \o job_queue

\* Two jobs were queued together (the second was appended behind the first)
\* and both have been dispatched.
C2_TwoQueuedThenDispatched ==
    /\ Cardinality(Dispatched) >= 2
    /\ runner[2].job_id[2] = 1

\* C3: the in-flight counter is the number of dispatched jobs whose runner has
\* not ended, whatever the runner's outcome; it changes by one dispatch (+1)
\* or one runner's end (-1) at a time and is never negative.
C3_CounterMatchesRunning ==
    /\ [](active_jobs = Cardinality(Running) /\ active_jobs >= 0)
    /\ [][active_jobs' # active_jobs
            => \/ DispatchStep /\ active_jobs' = active_jobs + 1
               \/ /\ active_jobs' = active_jobs - 1
                  /\ \E i \in Runners : runner[i].pc = "finally" /\ runner'[i].pc = "done"
         ]_vars

\* Every job has been dispatched and has ended, one of them with an exception
\* that left the runner, and the counter is back at zero.
C3_AllEndedOneRaised ==
    /\ Cardinality(Dispatched) >= 2
    /\ \A i \in Dispatched : runner[i].pc = "done"
    /\ \E i \in Dispatched : runner[i].escaped
    /\ \E i \in Dispatched : ~runner[i].escaped
    /\ active_jobs = 0

\* C4 (as claimed, its cap-1 scenario): with the hourly cap at 1, once a job
\* has completed in the hour window the loop dispatches no further job.
C4_NoDispatchAfterCapReached ==
    [][(DispatchStep /\ settings.articles_per_hour = 1) => CompletedJobs = {}]_vars

\* C5: a tick that finds the hour window's count at or above the hourly cap
\* ends there: the queue, the in-flight counter, every job status and every
\* runner are as before.
C5_RateLimitedTickChangesNothing ==
    [][(/\ loop.pc = "sleep"
        /\ loop' # loop
        /\ token_usage.hour.count >= settings.articles_per_hour)
         => /\ loop'.pc = "sleep"
            /\ loop'.last = "skipped"
            /\ job_queue' = job_queue
            /\ active_jobs' = active_jobs
            /\ job_status' = job_status
            /\ runner' = runner]_vars

\* The tick before was skipped although a job waits and the concurrency cap
\* has room.
C5_SkippedWithJobWaiting ==
    /\ loop.pc = "sleep"
    /\ loop.last = "skipped"
    /\ token_usage.hour.count >= settings.articles_per_hour
    /\ job_queue # <<>>
    /\ active_jobs < settings.concurrent_jobs

\* Nothing is queued, being submitted or running.
AtRest ==
    /\ job_queue = <<>>
    /\ \A h \in Handlers : submit[h].pc = "idle"
    /\ \A i \in Dispatched : runner[i].pc = "done"

\* C6 (as claimed, in the form a finite run refutes): once the queue is
\* drained and every runner has ended, every submitted job is completed or
\* in error.
C6_AllTerminalAtRest ==
    AtRest => \A id \in DOMAIN job_status : job_status[id].status \in {"completed", "error"}

C8_FetchFailsFast ==
    /\ [][\A i \in Runners :
            (runner[i].pc = "fetch" /\ runner'[i].pc # "fetch")
                => IF runner'[i].restaurant_data = None
                   THEN /\ runner'[i].pc = "finally"
                        /\ job_status'[runner[i].job_id].status = "error"
                        /\ job_status'[runner[i].job_id].error
                               \in {"fetch_failed", "too_few_photos"}
                   ELSE /\ runner'[i].restaurant_data[1].name # ""
                        /\ runner'[i].restaurant_data[1].photo_count >= MinPhotos
         ]_vars
    /\ [](\A i \in Runners :
            runner[i].restaurant_data = None
                => /\ runner[i].gen_calls = 0
                   /\ runner[i].pub_calls = 0
                   /\ runner[i].record_calls = 0
                   /\ runner[i].pc \notin {"generate", "publish"})

\* A runner whose fetch was rejected has ended: its job is in error and
\* neither the generator nor the publisher was called.
C8_RejectedFetchEnded ==
    \E i \in Runners :
        /\ runner[i].pc = "done"
        /\ runner[i].scrape_calls = 1
        /\ runner[i].restaurant_data = None
        /\ job_status[runner[i].job_id].error = "too_few_photos"
        /\ job_status[runner[i].job_id].status = "error"
        /\ runner[i].gen_calls = 0
        /\ runner[i].pub_calls = 0

\* C9 (as claimed): record is called exactly once for every job that ends
\* completed, fallback jobs included, and never for a job that failed before
\* generation was attempted.
C9_RecordedOncePerCompletedJob ==
    \A i \in Runners :
        (runner[i].pc = "done" /\ runner[i].job_id \in DOMAIN job_status)
            => /\ job_status[runner[i].job_id].status = "completed"
                    => runner[i].record_calls = 1
               /\ runner[i].gen_calls = 0 => runner[i].record_calls = 0

\* C10: a record call at or after a window's start plus its period leaves the
\* window holding exactly the call's increments, count 1 and the call's time
\* as its start; an earlier call adds to the window and keeps its start; the
\* total window only ever grows.
WindowPeriods == [minute |-> MinutePeriod, hour |-> HourPeriod, day |-> DayPeriod]

C10_WindowResetOrAccumulate ==
    [][/\ token_usage'.total.count >= token_usage.total.count
       /\ token_usage'.total.input >= token_usage.total.input
       /\ token_usage'.total.output >= token_usage.total.output
       /\ token_usage'.total.cost >= token_usage.total.cost
       /\ token_usage'.total.count = token_usage.total.count + 1
            => LET din == token_usage'.total.input - token_usage.total.input
                   dout == token_usage'.total.output - token_usage.total.output
                   dcost == token_usage'.total.cost - token_usage.total.cost
               IN  \A w \in DOMAIN WindowPeriods :
                     LET old == token_usage[w] IN
                     IF now >= old.timestamp + WindowPeriods[w] * MillisPerSecond
                     THEN token_usage'[w] =
                            [input |-> din, output |-> dout, cost |-> dcost,
                             count |-> 1, timestamp |-> now]
                     ELSE token_usage'[w] =
                            [input |-> old.input + din, output |-> old.output + dout,
                             cost |-> old.cost + dcost, count |-> old.count + 1,
                             timestamp |-> old.timestamp]
      ]_vars

\* A record call made exactly one minute after the start reset the minute
\* window while the hour window went on accumulating.
C10_MinuteResetHourKept ==
    /\ now = MinutePeriod * MillisPerSecond
    /\ token_usage.minute.timestamp = now
    /\ token_usage.minute.count = 1
    /\ token_usage.hour.timestamp = 0
    /\ token_usage.hour.count = 2
    /\ token_usage.total.count = 2

\* The loop's read of the hour window's count at the start of a tick.
LoopReadsHourCount == loop.pc = "sleep" /\ loop' # loop

\* C11 (as claimed): whenever the supervising loop reads the hour window's
\* count, the window is not an expired one still holding a non-zero count.
C11_LoopNeverReadsExpiredCount ==
    [][LoopReadsHourCount
         => ~(/\ NeedsReset(now, token_usage.hour.timestamp, HourPeriod)
              /\ token_usage.hour.count > 0)]_vars

\* The record calls that have returned.
Recorded == {i \in Runners : runner[i].pc = "recorded"}
\* The record calls under way.
Recording == {i \in Runners : runner[i].pc \in {"record_load", "record_store"}}

\* What a reader of the four windows finds: all of them hold the same
\* accumulators (the clock stands still, so none has been reset).
WindowsAgree ==
    \A p \in {"minute", "hour", "day"} : \A f \in {"input", "output", "cost", "count"} :
        token_usage[p][f] = token_usage.total[f]

\* Once no record call is under way, the total window holds one increment per
\* call made.
NoLostIncrement ==
    Recording = {} =>
        \A k \in 1 .. Len(UsageFields) :
            token_usage.total[UsageFields[k]]
                = Cardinality(Recorded) * Increment(UsageFields[k])

\* C12 (as claimed): a record call updates the four windows as one step: a
\* reader never finds some windows ahead of the others, and after k record
\* calls the total window's count is k.
C12_RecordIsAtomic == WindowsAgree /\ NoLostIncrement

\* The lifecycle order of the status values: queued, processing, then one of
\* the terminal values completed and error.
StatusRank(status) ==
    CASE status = "queued" -> 0
      [] status = "processing" -> 1
      [] OTHER -> 2

\* C13 (as claimed): a job's status only moves forward, queued to processing
\* to completed or error, and a completed or error status never changes
\* again.
C13_StatusOnlyForward ==
    [][\A id \in DOMAIN job_status :
         /\ StatusRank(job_status'[id].status) >= StatusRank(job_status[id].status)
         /\ StatusRank(job_status[id].status) = 2
              => job_status'[id].status = job_status[id].status]_vars

\* C14 (as claimed): after a job's runner has ended, a status of completed
\* comes with progress 100, a result holding the post id, the post URL, the
\* restaurant name and the fallback flag, and no error message; and the status
\* has a warning exactly when the result's fallback flag is set.
C14_CompletedRecordIsWhole ==
    \A i \in Runners :
        (/\ runner[i].pc = "done"
         /\ runner[i].job_id \in DOMAIN job_status
         /\ job_status[runner[i].job_id].status = "completed")
            => LET st == job_status[runner[i].job_id]
               IN  /\ st.progress = 100
                   /\ st.result # None
                   /\ st.result[1].post_id = Post.id
                   /\ st.result[1].post_url = Post.link
                   /\ st.result[1].restaurant_name = GoodRecord.name
                   /\ st.error = Absent
                   /\ (st.warning # None) <=> st.result[1].article_generation_failed

\* C15 (as claimed): a job_update emit that raises never changes the job's
\* outcome and never leaves the runner: no job's error field comes from an
\* emit, and no exception leaves a runner whose status record exists.
C15_EmitFailureSwallowed ==
    /\ [](\A id \in DOMAIN job_status : job_status[id].error # "emit")
    /\ [][\A i \in Runners :
            (~runner[i].escaped /\ runner'[i].escaped)
                => runner[i].job_id \notin DOMAIN job_status]_vars

\* C16 (as claimed): a runner that has left its try block without a post has
\* put its job in the error state, with the error message set, the progress
\* short of 100 and no result, and no exception has left the runner.
C16_FailureEndsInError ==
    \A i \in Runners :
        (runner[i].pc \in {"finally", "done"} /\ runner[i].post = None)
            => /\ ~runner[i].escaped
               /\ runner[i].job_id \in DOMAIN job_status
               /\ job_status[runner[i].job_id].status = "error"
               /\ job_status[runner[i].job_id].error # Absent
               /\ job_status[runner[i].job_id].progress < 100
               /\ job_status[runner[i].job_id].result = None

C18_NoUrlTwice ==
    /\ \A a, b \in DOMAIN job_status :
         a # b => job_status[a].url # job_status[b].url
    /\ \A k, l \in 1 .. Len(job_queue) :
         k # l => job_queue[k].url # job_queue[l].url

\* C19 (as claimed): no two jobs ever created receive the same job_id.
C19_JobIdsUnique ==
    \A a, b \in 1 .. Len(enqueued) :
        a # b => enqueued[a].job_id # enqueued[b].job_id

\* The runners that have called the publisher.
Published == {i \in Runners : runner[i].pub_calls > 0}

\* C20 (as claimed): a job that carries category ids is published with those
\* ids, every one of them.
C20_JobIdsUsedAsGiven ==
    \A i \in Published :
        HasCategoryIds(runner[i].category_ids)
            => /\ runner[i].used_categories # None
               /\ Len(runner[i].used_categories[1]) = Len(runner[i].category_ids[1])

\* C20 (amended): a new job carries the per-URL ids when they are non-empty,
\* else the batch-wide ids when the request is in manual mode with a non-empty
\* list, else none; publish uses auto-classification exactly when the job
\* carries none, and otherwise passes the job's ids converted to integers,
\* leaving out those that do not convert.
C20_CategoryPrecedence ==
    /\ \A h \in Handlers :
         submit[h].pc = "store"
            => LET q == submit[h].request[1]
                   ids == submit[h].job[1].category_ids
               IN  IF q.url_specific_cats # None /\ q.url_specific_cats[1] # <<>>
                   THEN ids = q.url_specific_cats
                   ELSE IF ~q.use_auto_category /\ q.category_ids # <<>>
                        THEN ids = Some(q.category_ids)
                        ELSE ids = None
    /\ \A i \in Published :
         LET ids == runner[i].category_ids
         IN  IF ids # None /\ ids[1] # <<>>
             THEN /\ ~runner[i].auto_category
                  /\ runner[i].used_categories # None
                  /\ Len(runner[i].used_categories[1]) <= Len(ids[1])
                  /\ \A k \in 1 .. Len(runner[i].used_categories[1]) :
                       \E l \in 1 .. Len(ids[1]) :
                           CategoryIdInt(ids[1][l]) = Some(runner[i].used_categories[1][k])
                  /\ \A l \in 1 .. Len(ids[1]) :
                       CategoryIdInt(ids[1][l]) # None
                           => \E k \in 1 .. Len(runner[i].used_categories[1]) :
                                Some(runner[i].used_categories[1][k]) = CategoryIdInt(ids[1][l])
             ELSE runner[i].auto_category /\ runner[i].used_categories = None

\* A job submitted in manual mode with batch-wide ids and its own per-URL ids,
\* one of which is no integer, has been published with the per-URL id that
\* converts.
C20_PerUrlIdsWonOverBatch ==
    \E i \in Published :
        /\ runner[i].category_ids = Some(<<"x", "7">>)
        /\ runner[i].used_categories = Some(<<7>>)
        /\ ~runner[i].auto_category
        /\ runner[i].post # None

\* The handlers that have begun a settings update.
Updating == {h \in Handlers : UpdatesBegun(h) > 0}

\* The settings record a request asks for (every value converts).
Requested(data) ==
    [articles_per_hour |-> data.articles_per_hour[1], auto_publish |-> data.auto_publish,
     concurrent_jobs |-> data.concurrent_jobs[1]]

\* The requests whose values all convert.
Convertible(data) == data.articles_per_hour # None /\ data.concurrent_jobs # None

\* The whole settings records of a run: the one before the update and the one
\* the update asks for.
WholeSettings ==
    IF Updating = {} THEN {settings}
    ELSE {submit[h].old : h \in Updating}
            \cup {Requested(submit[h].request[1]) : h \in Updating}

\* A step in which the loop or a runner reads a settings field.
ReadsSettings ==
    \/ loop.pc \in {"sleep", "limit"} /\ loop' # loop
    \/ \E i \in Runners : runner[i].pc = "publish" /\ runner'[i].pc # "publish"

\* C21 (as claimed): with an update whose values all convert, the settings
\* record a reader reads from is the record from before the update or the one
\* from after it, and the two caps the loop reads on one tick come from one of
\* these records.
C21_ReadersSeeWholeSettings ==
    [][(\A h \in Updating : Convertible(submit[h].request[1]))
         => /\ ReadsSettings => settings \in WholeSettings
            /\ (loop.pc = "limit" /\ loop'.pc = "lock")
                 => \E w \in WholeSettings :
                      /\ loop.articles_per_hour = w.articles_per_hour
                      /\ loop'.concurrent_limit = w.concurrent_jobs]_vars

\* C22: under concurrent submit handlers and the loop's pop, every job ever
\* appended is, in the order of the appends, either handed to exactly one
\* runner or still at exactly one place in the queue.
C22_NoJobLostOrDuplicated ==
    LET n == Cardinality(Dispatched) IN
    /\ Len(enqueued) = n + Len(job_queue)
    /\ \A k \in 1 .. Len(enqueued) :
         IF k <= n
         THEN /\ runner[k].job_id = enqueued[k].job_id
              /\ runner[k].url = enqueued[k].url
              /\ runner[k].category_ids = enqueued[k].category_ids
         ELSE job_queue[k - n] = enqueued[k]

\* Two handlers are both between their append and their status store; the
\* loop has popped the first one's job and the other's is in the queue.
C22_PoppedBetweenTwoAppends ==
    /\ \A h \in 1 .. 2 : submit[h].pc = "store"
    /\ Cardinality(Dispatched) = 1
    /\ Len(job_queue) = 1
    /\ job_queue[1] = enqueued[2]

\* C23 (as claimed): whatever moment a reader reads a status record at, a
\* status of completed comes with progress 100 and the result, and a status
\* of error with the error message.
C23_StatusRecordNeverHalfWritten ==
    \A id \in DOMAIN job_status :
        /\ job_status[id].status = "completed"
             => job_status[id].progress = 100 /\ job_status[id].result # None
        /\ job_status[id].status = "error" => job_status[id].error # Absent

\* C24 (as claimed): a tick that finds the queue non-empty and the counter
\* below the cap it read removes the head, counts it and starts one runner,
\* and any other tick leaves the queue alone; and no other thread, a stats
\* request included, reads a queue without the job and a counter without its
\* increment.
C24_OneDispatchPerTickUnderLock ==
    /\ [][(loop.pc = "lock" /\ loop' # loop)
            => IF CanDispatch(job_queue, active_jobs, loop.concurrent_limit)
               THEN job_queue' = Tail(job_queue) /\ loop'.job = Head(job_queue)
               ELSE job_queue' = job_queue /\ loop'.pc = "sleep"]_vars
    /\ [][(loop.pc = "pool" /\ loop' # loop)
            => /\ Cardinality(Dispatched') = Cardinality(Dispatched) + 1
               /\ loop'.pc = "sleep"]_vars
    /\ [][submit'[MaxHandlers] # submit[MaxHandlers]
            => submit'[MaxHandlers].stats.active_jobs
                 = Len(enqueued) - submit'[MaxHandlers].stats.queue_length
                     - Cardinality(Dispatched \ Running)]_vars

\* The loop is skipping its ticks over a waiting job although the hour
\* window's period has elapsed.
ThrottledPastTheHour ==
    /\ job_queue # <<>>
    /\ RateLimited(token_usage.hour.count, settings.articles_per_hour)
    /\ NeedsReset(now, token_usage.hour.timestamp, HourPeriod)

\* C25 (as claimed): once the hour window's period has elapsed, a loop that
\* was skipping ticks at the hourly cap eventually dispatches the next queued
\* job, whether or not anybody else resets the window.
C25_ThrottlingIsTemporary ==
    \A k \in 0 .. MaxJobs - 1 :
        (ThrottledPastTheHour /\ Cardinality(Dispatched) = k)
            ~> (Cardinality(Dispatched) > k)

\* C26 (as claimed, its terminal transitions): the job_update event a runner
\* emits after writing completed carries status completed, and the one it
\* emits after writing error carries status error.
C26_TerminalEventCarriesTerminalStatus ==
    [][\A i \in Runners :
         /\ (runner[i].pc = "emit_completed" /\ runner'[i].pc = "finally")
              => runner'[i].emitted.status = "completed"
         /\ (runner[i].pc = "emit_error" /\ runner'[i].pc = "finally")
              => runner'[i].emitted.status = "error"]_vars

\* C27: the post status is decided in the step that calls the publisher, from
\* the auto_publish setting as it is in that step: publish when it is true,
\* draft otherwise; before that step the runner holds no post status.
C27_PostStatusFromSettingAtPublish ==
    /\ [](\A i \in Runners :
            runner[i].pub_calls = 0 => runner[i].post_status = Absent)
    /\ [][\A i \in Runners :
            (runner[i].pc = "publish" /\ runner'[i].pc # "publish")
                => /\ runner'[i].pub_calls = 1
                   /\ runner'[i].post_status
                        = IF settings.auto_publish THEN "publish" ELSE "draft"]_vars

\* The job dispatched first was published after the settings update and sent
\* as publish, although auto_publish was false when it was submitted and
\* dispatched: the job dispatched after it had been sent as draft before the
\* update.
C27_UpdateReachedRunningJob ==
    /\ runner[1].post_status = "publish"
    /\ runner[2].post_status = "draft"
    /\ submit[MaxHandlers].pc = "succeeded"
    /\ settings.auto_publish

\* C28 (as claimed): a job in the queue has its status record, in state
\* queued; a dispatched runner's status record exists; and no status record
\* is written to queued once a runner holds its job.
C28_StatusStoredBeforeQueued ==
    /\ [](\A k \in 1 .. Len(job_queue) :
            /\ job_queue[k].job_id \in DOMAIN job_status
            /\ job_status[job_queue[k].job_id].status = "queued")
    /\ [](\A i \in Dispatched : runner[i].job_id \in DOMAIN job_status)
    /\ [][\A h \in Handlers :
            (submit[h].pc = "store" /\ submit'[h].pc = "idle")
                => \A i \in Dispatched : runner[i].job_id # submit[h].job[1].job_id]_vars

\* C29 (as claimed): after a settings request has answered success = false
\* the three settings are as they were when the request came in, and after
\* one has answered success they are the three values it posted.
C29_FailedUpdateChangesNothing ==
    \A h \in Updating :
        /\ submit[h].pc = "failed" => settings = submit[h].old
        /\ submit[h].pc = "succeeded" => settings = Requested(submit[h].request[1])

\* C30: the loop reads the concurrency cap from the settings on every tick
\* that passes the rate check, and in that tick dispatches a job exactly when
\* one waits and the in-flight count is strictly below the cap it read; a
\* change of the settings leaves the queue, the runners and the in-flight
\* count as they are.
C30_CapReadEachTick ==
    /\ [][(loop.pc = "limit" /\ loop' # loop)
            => loop'.concurrent_limit = settings.concurrent_jobs]_vars
    /\ [][DispatchStep
            => /\ loop.pc = "lock"
               /\ active_jobs < loop.concurrent_limit
               /\ active_jobs' = active_jobs + 1]_vars
    /\ [][(loop.pc = "lock" /\ loop' # loop)
            => (DispatchStep <=> (job_queue # <<>> /\ active_jobs < loop.concurrent_limit))]_vars
    /\ [][settings' # settings
            => /\ job_queue' = job_queue
               /\ runner' = runner
               /\ active_jobs' = active_jobs
               /\ job_status' = job_status]_vars

\* The cap was lowered to one while two jobs were running: both are still
\* running, and the loop has read the lowered cap on this tick.
C30_LoweredCapWithJobsRunning ==
    /\ settings.concurrent_jobs = 1
    /\ active_jobs = 2
    /\ Cardinality(Running) = 2
    /\ loop.pc = "lock"
    /\ loop.concurrent_limit = 1

====
